---- MODULE Spec2Model ----
(***************************************************************************)
(* Model of src/app.py: the Flask OAuth 2.0 Authorization-Code-with-PKCE   *)
(* client (/login, /callback, /logout) and the bearer-token proxy          *)
(* (/api/agentforce-proxy).                                                *)
(*                                                                         *)
(* Flask's `session` is a signed cookie: a request reads the cookie the    *)
(* user agent sent, works on its own copy, and the response carries a      *)
(* Set-Cookie with the whole copy when the handler modified it.  The       *)
(* variable `session` is the cookie each user agent currently holds; a     *)
(* request in flight keeps its copy in `req[r].sess`.                      *)
(***************************************************************************)
EXTENDS Integers, Sequences, FiniteSets, TLC

\* ---------------------------------------------------------------- bounds
NumSessions == 1
NumSlots == 2

SessionIds == 1..NumSessions
Slots == 1..NumSlots

\* ----------------------------------------------------- python dictionaries
None == "None"
EmptyDict == [k \in {} |-> None]
Get(d, k) == IF k \in DOMAIN d THEN d[k] ELSE None
Put(d, k, v) == [x \in (DOMAIN d) \cup {k} |-> IF x = k THEN v ELSE d[x]]
\* python truthiness of an optional string: None and "" are falsy
Truthy(v) == v # None /\ v # ""

\* ------------------------------------------------------------ value domains
Verifiers == {"v1", "v2"}
Codes == {"c1", "c2"}
CodeParams == Codes \cup {None, ""}
ErrorParams == {None, "", "access_denied"}
Payloads == {"{ \"ok\" : true }", "not json"}

\* ------------------------------------------------------------ configuration
REDIRECT_URI == "http://localhost:5000/callback"
Url(base, path) == [base |-> base, path |-> path]
auth_url == Url("https://yg-agentforce-factory.my.salesforce.com", "/services/oauth2/authorize")
token_url == Url("https://yg-agentforce-factory.my.salesforce.com", "/services/oauth2/token")
scope == "api web refresh_token offline_access lightning wave_api"
agentforce_endpoint == "/services/data/v58.0/analytics/agent"

\* the environment the process was started with
Environments ==
    [SALESFORCE_CLIENT_ID : {"cid"},
     SALESFORCE_CLIENT_SECRET : {None, "", "sec"},
     FLASK_ENV : {"production", "development"}]

VARIABLES
    env,       \* os.environ as read at import time
    session,   \* session[sid]: the session cookie user agent sid holds
    req        \* req[r]: the request worker r is serving or served last

vars == <<env, session, req>>

SALESFORCE_CLIENT_ID == env.SALESFORCE_CLIENT_ID
SALESFORCE_CLIENT_SECRET == env.SALESFORCE_CLIENT_SECRET
debug == env.FLASK_ENV = "development"


\* ------------------------------------------------------------------- JSON
\* bodies the token endpoint may send
TokenBody1 == "{access_token:T1,instance_url:U1,id:I1,refresh_token:R1}"
TokenBody2 == "{access_token:T2,instance_url:U2,id:I2}"
TokenBodyNoInstance == "{access_token:T2,id:I2}"
TokenBodyNoId == "{access_token:T2,instance_url:U2}"
ErrBody1 == "{error:invalid_grant}"
ErrBody2 == "{error:invalid_client}"
\* bodies the identity endpoint may send
IdentityBody == "{name:alice}"
\* bodies the downstream resource server may send
DownBodyCanonical == "{\"error\":\"x\"}"
DownBodySpaced == "{ \"ok\" : true }"
DownBodyOpaque == "<html>Bad Gateway</html>"

\* response.json(): the parsed object, or a decoding failure
ParseJson(text) ==
    CASE text = TokenBody1 ->
           [ok |-> TRUE, val |-> [access_token |-> "T1", instance_url |-> "U1",
                                  id |-> "I1", refresh_token |-> "R1"]]
      [] text = TokenBody2 ->
           [ok |-> TRUE, val |-> [access_token |-> "T2", instance_url |-> "U2",
                                  id |-> "I2"]]
      [] text = TokenBodyNoInstance ->
           [ok |-> TRUE, val |-> [access_token |-> "T2", id |-> "I2"]]
      [] text = TokenBodyNoId ->
           [ok |-> TRUE, val |-> [access_token |-> "T2", instance_url |-> "U2"]]
      [] text = ErrBody1 -> [ok |-> TRUE, val |-> [error |-> "invalid_grant"]]
      [] text = ErrBody2 -> [ok |-> TRUE, val |-> [error |-> "invalid_client"]]
      [] text = IdentityBody -> [ok |-> TRUE, val |-> [name |-> "alice"]]
      [] text = DownBodyCanonical -> [ok |-> TRUE, val |-> [error |-> "x"]]
      [] text = DownBodySpaced -> [ok |-> TRUE, val |-> [ok |-> "true"]]
      [] OTHER -> [ok |-> FALSE, val |-> EmptyDict]

\* flask.jsonify: compact serialisation of the object followed by a newline
Jsonify(val) ==
    CASE val = [error |-> "x"] -> "{\"error\":\"x\"}\n"
      [] val = [ok |-> "true"] -> "{\"ok\":true}\n"
      [] val = [error |-> "Not authenticated"] -> "{\"error\":\"Not authenticated\"}\n"
      [] OTHER -> "{...}\n"

\* ---------------------------------------------------------------- network
\* what an outbound HTTP call can meet: an HTTP response, a failed
\* connection, or a server that never answers
HttpResponse(status, body) == [type |-> "response", status_code |-> status, text |-> body]
ConnectionFailed == [type |-> "connection_error", status_code |-> 0, text |-> None]
NoAnswer == [type |-> "no_answer", status_code |-> 0, text |-> None]

TokenReplies ==
    {HttpResponse(200, b) : b \in {TokenBody1, TokenBody2, TokenBodyNoInstance, TokenBodyNoId}}
    \cup {HttpResponse(400, ErrBody1), HttpResponse(401, ErrBody2)}
    \cup {ConnectionFailed, NoAnswer}
IdentityReplies ==
    {HttpResponse(200, IdentityBody), HttpResponse(403, ErrBody1), ConnectionFailed, NoAnswer}
DownstreamReplies ==
    {HttpResponse(s, b) : s \in {200, 403}, b \in {DownBodyCanonical, DownBodySpaced, DownBodyOpaque}}
    \cup {ConnectionFailed, NoAnswer}

\* the timeout= argument of the requests.post / requests.get calls: none is passed
requests_timeout == None

\* -------------------------------------------------------------- responses
NoResp == [status |-> 0, kind |-> "none", body |-> [msg |-> None]]
Text(status, body) == [status |-> status, kind |-> "text", body |-> body]
Redirect(location, query) ==
    [status |-> 302, kind |-> "redirect", body |-> [location |-> location, query |-> query]]
JsonResp(status, text) == [status |-> status, kind |-> "json", body |-> [json |-> text]]
\* jsonify of a dict the view built itself, kept as the object
JsonObjectResp(status, obj) == [status |-> status, kind |-> "json", body |-> [object |-> obj]]
\* an exception no handler catches: Flask answers 500 Internal Server Error
\* (or, in debug mode, lets it propagate to the WSGI server's traceback page)
Unhandled(exc) == [status |-> 500, kind |-> "exception", body |-> [exc |-> exc]]
\* a werkzeug HTTPException raised by the framework
HttpError(status, name) == [status |-> status, kind |-> "http_error", body |-> [msg |-> name]]

\* ------------------------------------------------------- requests in flight
NoArgs == [code |-> None, error |-> None, payload |-> None]
IdleReq ==
    [pc |-> "idle", op |-> "none", sid |-> 0, args |-> NoArgs,
     pre |-> EmptyDict, sess |-> EmptyDict, modified |-> FALSE,
     calls |-> <<>>, replies |-> <<>>, fault |-> "none",
     resp |-> NoResp, saved |-> FALSE]

NewReq(op, sid, args) ==
    [IdleReq EXCEPT !.pc = "running", !.op = op, !.sid = sid, !.args = args,
                    !.pre = session[sid], !.sess = session[sid]]

\* session[k] = v: SecureCookieSession marks itself modified
SetItem(q, k, v) == [q EXCEPT !.sess = Put(q.sess, k, v), !.modified = TRUE]

\* the handler returned `resp`: Flask saves the session (Set-Cookie) when modified
Finish(q, resp) == [q EXCEPT !.pc = "done", !.resp = resp, !.saved = q.modified]

\* the handler raised: handle_exception builds the 500 response and still saves
\* the session, unless exceptions propagate (debug mode)
Raise(q, exc) ==
    [q EXCEPT !.pc = "done", !.resp = Unhandled(exc), !.saved = q.modified /\ ~debug]

\* an outbound call is issued and the handler waits for its outcome
Call(q, pc, call) == [q EXCEPT !.pc = pc, !.calls = Append(q.calls, call)]

\* requests raises on a failed connection; a silent server raises Timeout only
\* when a timeout was given, otherwise the call never returns
Transport(q, reply) ==
    LET q1 == [q EXCEPT !.replies = Append(q.replies, reply)] IN
    IF reply.type = "connection_error"
    THEN Raise([q1 EXCEPT !.fault = "connection_error"], "ConnectionError")
    ELSE IF requests_timeout = None
         THEN [q1 EXCEPT !.pc = "blocked", !.fault = "no_answer"]
         ELSE Raise([q1 EXCEPT !.fault = "no_answer"], "Timeout")

\* Commit writing to one store shared by all user agents
Commit_shared(q) ==
    IF q.pc = "done" /\ q.saved THEN [s \in DOMAIN session |-> q.sess] ELSE session

\* the cookie the user agent holds after the step
Commit(q) ==
    IF q.pc = "done" /\ q.saved THEN [session EXCEPT ![q.sid] = q.sess] ELSE session

Free(r) ==
    /\ req[r].pc \in {"idle", "done"}
    /\ \A o \in Slots : o < r => req[o].pc \notin {"idle", "done"}

\* no request is being served
Quiet == \A r \in Slots : req[r].pc \in {"idle", "done"}

Step(r, q) ==
    /\ req' = [req EXCEPT ![r] = q]
    /\ session' = Commit(q)
    /\ UNCHANGED env

TypeOK ==
    /\ env \in Environments
    /\ DOMAIN session \subseteq Nat
    /\ DOMAIN req = Slots

Init ==
    /\ env \in Environments
    /\ session = [s \in SessionIds |-> EmptyDict]
    /\ req = [r \in Slots |-> IdleReq]

\* ------------------------------------------------------------------ /login
\* base64url(sha256(code_verifier)) without padding: a fixed injective digest
code_challenge_of(code_verifier) ==
    CASE code_verifier = "v1" -> "S256-6fd2"
      [] code_verifier = "v2" -> "S256-a91c"
      [] OTHER -> "S256-0000"

\* login_handler starting from an emptied session
login_handler_clearing(q, code_verifier) ==
    LET code_challenge == code_challenge_of(code_verifier)
        q1 == SetItem([q EXCEPT !.sess = EmptyDict], "code_verifier", code_verifier)
        params == [response_type |-> "code",
                   client_id |-> SALESFORCE_CLIENT_ID,
                   redirect_uri |-> REDIRECT_URI,
                   scope |-> scope,
                   code_challenge |-> code_challenge,
                   code_challenge_method |-> "S256"]
    IN  Finish(q1, Redirect(auth_url, params))

\* login_handler keeping a verifier that is already pending
login_handler_keep_pending(q, code_verifier) ==
    LET code_challenge == code_challenge_of(code_verifier)
        q1 == IF "code_verifier" \in DOMAIN q.sess
              THEN [q EXCEPT !.modified = TRUE]
              ELSE SetItem(q, "code_verifier", code_verifier)
        params == [response_type |-> "code",
                   client_id |-> SALESFORCE_CLIENT_ID,
                   redirect_uri |-> REDIRECT_URI,
                   scope |-> scope,
                   code_challenge |-> code_challenge,
                   code_challenge_method |-> "S256"]
    IN  Finish(q1, Redirect(auth_url, params))

\* login_handler sending the verifier itself as the challenge
login_handler_plain(q, code_verifier) ==
    LET code_challenge == code_verifier
        q1 == SetItem(q, "code_verifier", code_verifier)
        params == [response_type |-> "code",
                   client_id |-> SALESFORCE_CLIENT_ID,
                   redirect_uri |-> REDIRECT_URI,
                   scope |-> scope,
                   code_challenge |-> code_challenge,
                   code_challenge_method |-> "S256"]
    IN  Finish(q1, Redirect(auth_url, params))

login_handler(q, code_verifier) ==
    LET code_challenge == code_challenge_of(code_verifier)
        q1 == SetItem(q, "code_verifier", code_verifier)
        params == [response_type |-> "code",
                   client_id |-> SALESFORCE_CLIENT_ID,
                   redirect_uri |-> REDIRECT_URI,
                   scope |-> scope,
                   code_challenge |-> code_challenge,
                   code_challenge_method |-> "S256"]
    IN  Finish(q1, Redirect(auth_url, params))

\* --------------------------------------------------------------- /callback
AuthorizationFailedMsg == "Authorization failed"
MissingCodeMsg == "Authorization failed: No authorization code received"
MissingVerifierMsg == "Authorization failed: Missing PKCE code verifier"
TokenExchangeFailedMsg == "Token exchange failed"

Post(url, data, bearer) == [method |-> "POST", url |-> url, data |-> data, bearer |-> bearer]
HttpGet(url, bearer) == [method |-> "GET", url |-> url, data |-> EmptyDict, bearer |-> bearer]

token_data_pkce(code, code_verifier) ==
    [grant_type |-> "authorization_code",
     client_id |-> SALESFORCE_CLIENT_ID,
     redirect_uri |-> REDIRECT_URI,
     code |-> code,
     code_verifier |-> code_verifier]

token_data_secret(code, code_verifier) ==
    [grant_type |-> "authorization_code",
     client_id |-> SALESFORCE_CLIENT_ID,
     client_secret |-> SALESFORCE_CLIENT_SECRET,
     redirect_uri |-> REDIRECT_URI,
     code |-> code,
     code_verifier |-> code_verifier]

\* callback_start without the check of lines 118-119
callback_start_unchecked(q) ==
    LET code == q.args.code
        error == q.args.error
        code_verifier == Get(q.sess, "code_verifier")
    IN  IF Truthy(error)
        THEN Finish(q, Text(400, [msg |-> AuthorizationFailedMsg, error |-> error]))
        ELSE IF ~Truthy(code)
        THEN Finish(q, Text(400, [msg |-> MissingCodeMsg]))
        ELSE Call(q, "token", Post(token_url, token_data_pkce(code, code_verifier), None))

\* callback_start looking at the code before the error parameter
callback_start_code_first(q) ==
    LET code == q.args.code
        error == q.args.error
        code_verifier == Get(q.sess, "code_verifier")
    IN  IF ~Truthy(code)
        THEN Finish(q, Text(400, [msg |-> MissingCodeMsg]))
        ELSE IF ~Truthy(code_verifier)
        THEN Finish(q, Text(400, [msg |-> MissingVerifierMsg]))
        ELSE IF Truthy(error)
        THEN Finish(q, Text(400, [msg |-> AuthorizationFailedMsg, error |-> error]))
        ELSE Call(q, "token", Post(token_url, token_data_pkce(code, code_verifier), None))

\* from the request's arrival to the first token POST
callback_start(q) ==
    LET code == q.args.code
        error == q.args.error
        code_verifier == Get(q.sess, "code_verifier")
    IN  IF Truthy(error)
        THEN Finish(q, Text(400, [msg |-> AuthorizationFailedMsg, error |-> error]))
        ELSE IF ~Truthy(code)
        THEN Finish(q, Text(400, [msg |-> MissingCodeMsg]))
        ELSE IF ~Truthy(code_verifier)
        THEN Finish(q, Text(400, [msg |-> MissingVerifierMsg]))
        ELSE Call(q, "token", Post(token_url, token_data_pkce(code, code_verifier), None))

\* `response` is the token endpoint's last answer: store the tokens and ask for
\* the identity, or report the failed exchange
after_token(q, response) ==
    IF response.status_code = 200
    THEN LET parsed == ParseJson(response.text)
             token_info == parsed.val
         IN  IF ~parsed.ok THEN Raise(q, "JSONDecodeError")
             ELSE IF "access_token" \notin DOMAIN token_info THEN Raise(q, "KeyError")
             ELSE LET q1 == SetItem(q, "access_token", token_info["access_token"]) IN
             IF "instance_url" \notin DOMAIN token_info THEN Raise(q1, "KeyError")
             ELSE LET q2 == SetItem(q1, "instance_url", token_info["instance_url"])
                      q3 == SetItem(q2, "refresh_token", Get(token_info, "refresh_token"))
                  IN
             IF "id" \notin DOMAIN token_info THEN Raise(q3, "KeyError")
             ELSE Call(q3, "identity",
                       HttpGet(Url(token_info["id"], ""), token_info["access_token"]))
    ELSE Finish(q, Text(400, [msg |-> TokenExchangeFailedMsg,
                              status |-> response.status_code,
                              text |-> response.text]))

\* token_reply retrying on every rejection, whether a secret is configured or not
token_reply_always_retry(q, reply) ==
    IF reply.type # "response" THEN Transport(q, reply)
    ELSE LET q1 == [q EXCEPT !.replies = Append(q.replies, reply)]
             code == q.args.code
             code_verifier == Get(q.pre, "code_verifier")
         IN  IF reply.status_code # 200
             THEN Call(q1, "token_retry",
                       Post(token_url, token_data_secret(code, code_verifier), None))
             ELSE after_token(q1, reply)

\* the PKCE-only POST came back: retry with the client secret when it was
\* rejected and a secret is configured
token_reply(q, reply) ==
    IF reply.type # "response" THEN Transport(q, reply)
    ELSE LET q1 == [q EXCEPT !.replies = Append(q.replies, reply)]
             code == q.args.code
             code_verifier == Get(q.pre, "code_verifier")
         IN  IF reply.status_code # 200 /\ Truthy(SALESFORCE_CLIENT_SECRET)
             THEN Call(q1, "token_retry",
                       Post(token_url, token_data_secret(code, code_verifier), None))
             ELSE after_token(q1, reply)

\* token_retry_reply reporting the first response instead of the retry's
token_retry_reply_stale(q, reply) ==
    IF reply.type # "response" THEN Transport(q, reply)
    ELSE after_token([q EXCEPT !.replies = Append(q.replies, reply)],
                     IF reply.status_code = 200 THEN reply ELSE q.replies[1])

\* the secret-bearing POST came back
token_retry_reply(q, reply) ==
    IF reply.type # "response" THEN Transport(q, reply)
    ELSE after_token([q EXCEPT !.replies = Append(q.replies, reply)], reply)

\* the identity GET came back
identity_reply(q, reply) ==
    IF reply.type # "response" THEN Transport(q, reply)
    ELSE LET q1 == [q EXCEPT !.replies = Append(q.replies, reply)] IN
         IF reply.status_code = 200
         THEN LET parsed == ParseJson(reply.text) IN
              IF ~parsed.ok THEN Raise(q1, "JSONDecodeError")
              ELSE Finish(SetItem(q1, "user_info", parsed.val),
                          Redirect("dashboard", EmptyDict))
         ELSE Finish(q1, Redirect("dashboard", EmptyDict))

\* ----------------------------------------------------------------- /logout
\* logout_handler dropping the access token only
logout_handler_token_only(q) ==
    Finish([q EXCEPT !.sess = [k \in (DOMAIN q.sess) \ {"access_token"} |-> q.sess[k]],
                     !.modified = TRUE],
           Redirect("index", EmptyDict))

logout_handler(q) ==
    Finish([q EXCEPT !.sess = EmptyDict, !.modified = TRUE], Redirect("index", EmptyDict))

\* ---------------------------------------------------- /api/agentforce-proxy
NotAuthenticated == [error |-> "Not authenticated"]

\* proxy_start without the check of lines 213-214
proxy_start_unchecked(q) ==
    IF ~ParseJson(q.args.payload).ok THEN Finish(q, HttpError(400, "Bad Request"))
    ELSE Call(q, "downstream",
              Post(Url(Get(q.sess, "instance_url"), agentforce_endpoint),
                   [json |-> q.args.payload], Get(q.sess, "access_token")))

proxy_start(q) ==
    IF "access_token" \notin DOMAIN q.sess
    THEN Finish(q, JsonResp(401, Jsonify(NotAuthenticated)))
    ELSE IF "instance_url" \notin DOMAIN q.sess THEN Raise(q, "KeyError")
    ELSE IF ~ParseJson(q.args.payload).ok THEN Finish(q, HttpError(400, "Bad Request"))
    ELSE Call(q, "downstream",
              Post(Url(q.sess["instance_url"], agentforce_endpoint),
                   [json |-> q.args.payload], q.sess["access_token"]))

proxy_reply(q, reply) ==
    IF reply.type # "response" THEN Transport(q, reply)
    ELSE LET q1 == [q EXCEPT !.replies = Append(q.replies, reply)]
             parsed == ParseJson(reply.text)
         IN  IF ~parsed.ok THEN Raise(q1, "JSONDecodeError")
             ELSE Finish(q1, JsonResp(reply.status_code, Jsonify(parsed.val)))

\* ------------------------------------------------------ /api/tableau-config
dashboard_id == "Performance_Overview_Full_Page"
org_url == "https://yg-agentforce-factory.lightning.force.com"

\* tableau_config_handler handing out the client secret with the configuration
tableau_config_handler_with_secret(q) ==
    IF "access_token" \notin DOMAIN q.sess
    THEN Finish(q, JsonResp(401, Jsonify(NotAuthenticated)))
    ELSE LET config == [instanceUrl |-> Get(q.sess, "instance_url"),
                        orgUrl |-> org_url,
                        dashboardId |-> dashboard_id,
                        accessToken |-> Get(q.sess, "access_token"),
                        clientSecret |-> SALESFORCE_CLIENT_SECRET,
                        apiVersion |-> "58.0"]
         IN  Finish(q, JsonObjectResp(200, config))

tableau_config_handler(q) ==
    IF "access_token" \notin DOMAIN q.sess
    THEN Finish(q, JsonResp(401, Jsonify(NotAuthenticated)))
    ELSE LET config == [instanceUrl |-> Get(q.sess, "instance_url"),
                        orgUrl |-> org_url,
                        dashboardId |-> dashboard_id,
                        accessToken |-> Get(q.sess, "access_token"),
                        authCredential |-> Get(q.sess, "access_token"),
                        sessionId |-> Get(q.sess, "access_token"),
                        apiVersion |-> "58.0"]
         IN  Finish(q, JsonObjectResp(200, config))

\* ----------------------------------------------------------------- actions
login(r, sid) ==
    /\ Free(r)
    /\ \E code_verifier \in Verifiers :
          Step(r, login_handler(NewReq("login", sid, NoArgs), code_verifier))

callback(r, sid) ==
    /\ Free(r)
    /\ \E code \in CodeParams, error \in ErrorParams :
          Step(r, callback_start(NewReq("callback", sid,
                                        [NoArgs EXCEPT !.code = code, !.error = error])))

token_response(r) ==
    /\ req[r].pc = "token"
    /\ \E reply \in TokenReplies : Step(r, token_reply(req[r], reply))

token_retry_response(r) ==
    /\ req[r].pc = "token_retry"
    /\ \E reply \in TokenReplies : Step(r, token_retry_reply(req[r], reply))

identity_response(r) ==
    /\ req[r].pc = "identity"
    /\ \E reply \in IdentityReplies : Step(r, identity_reply(req[r], reply))

logout(r, sid) ==
    /\ Free(r)
    /\ Step(r, logout_handler(NewReq("logout", sid, NoArgs)))

agentforce_proxy(r, sid) ==
    /\ Free(r)
    /\ \E payload \in Payloads :
          Step(r, proxy_start(NewReq("proxy", sid, [NoArgs EXCEPT !.payload = payload])))

downstream_response(r) ==
    /\ req[r].pc = "downstream"
    /\ \E reply \in DownstreamReplies : Step(r, proxy_reply(req[r], reply))

tableau_config(r, sid) ==
    /\ Free(r)
    /\ Step(r, tableau_config_handler(NewReq("tableau_config", sid, NoArgs)))

\* requests are served one at a time: a new one is accepted when none is in flight
Next ==
    \/ \E r \in Slots, sid \in DOMAIN session : Quiet /\ login(r, sid)
    \/ \E r \in Slots, sid \in DOMAIN session : Quiet /\ callback(r, sid)
    \/ \E r \in Slots : token_response(r)
    \/ \E r \in Slots : token_retry_response(r)
    \/ \E r \in Slots : identity_response(r)
    \/ \E r \in Slots, sid \in DOMAIN session : Quiet /\ logout(r, sid)
    \/ \E r \in Slots, sid \in DOMAIN session : Quiet /\ agentforce_proxy(r, sid)
    \/ \E r \in Slots : downstream_response(r)
    \/ \E r \in Slots, sid \in DOMAIN session : Quiet /\ tableau_config(r, sid)

Spec == Init /\ [][Next]_vars

\* requests of any user agents overlap freely, up to NumSlots at a time
NextConcurrent ==
    \/ \E r \in Slots, sid \in DOMAIN session : login(r, sid)
    \/ \E r \in Slots, sid \in DOMAIN session : callback(r, sid)
    \/ \E r \in Slots : token_response(r)
    \/ \E r \in Slots : token_retry_response(r)
    \/ \E r \in Slots : identity_response(r)
    \/ \E r \in Slots, sid \in DOMAIN session : logout(r, sid)
    \/ \E r \in Slots, sid \in DOMAIN session : agentforce_proxy(r, sid)
    \/ \E r \in Slots : downstream_response(r)
    \/ \E r \in Slots, sid \in DOMAIN session : tableau_config(r, sid)

SpecConcurrent == Init /\ [][NextConcurrent]_vars

\* a double-submitted callback: the user agent logs in, then sends /callback
\* twice, the second while the first is still being served
Unused(r) == req[r].op \in {"none", "login"}

NextDoubleSubmit ==
    \/ \E r \in Slots, sid \in DOMAIN session :
          Quiet /\ (\A o \in Slots : Unused(o)) /\ login(r, sid)
    \/ \E r \in Slots, sid \in DOMAIN session : Unused(r) /\ callback(r, sid)
    \/ \E r \in Slots : token_response(r)
    \/ \E r \in Slots : token_retry_response(r)
    \/ \E r \in Slots : identity_response(r)

SpecDoubleSubmit == Init /\ [][NextDoubleSubmit]_vars

\* the process started in any environment, SALESFORCE_CLIENT_ID set or not:
\* os.environ.get returns None for an unset variable and nothing checks it
StartupEnvironments ==
    [SALESFORCE_CLIENT_ID : {None, "cid"},
     SALESFORCE_CLIENT_SECRET : {None, "", "sec"},
     FLASK_ENV : {"production", "development"}]

InitAnyEnvironment ==
    /\ env \in StartupEnvironments
    /\ session = [s \in SessionIds |-> EmptyDict]
    /\ req = [r \in Slots |-> IdleReq]

SpecAnyEnvironment == InitAnyEnvironment /\ [][Next]_vars

\* two user agents, A holding cookie 1 and B holding cookie 2, each sending one
\* request at a time: slot a serves the requests of agent a, and the requests
\* of the two overlap. Their requests are well-formed and the endpoints answer:
\* a callback carries a code and no error, the token endpoint grants or rejects,
\* the identity and downstream endpoints answer in JSON
Agents == {1, 2}

PlainReplies ==
    {HttpResponse(200, TokenBody1), HttpResponse(200, TokenBody2),
     HttpResponse(400, ErrBody1), HttpResponse(200, IdentityBody),
     HttpResponse(403, ErrBody1), HttpResponse(200, DownBodyCanonical)}

PlainRequest(q) ==
    /\ q.args.error = None
    /\ q.args.code \in {None, "c1"}
    /\ q.op = "callback" => q.args.code = "c1"
    /\ q.args.payload \in {None, "{ \"ok\" : true }"}
    /\ \A i \in 1..Len(q.replies) : q.replies[i] \in PlainReplies

InitTwoAgents ==
    /\ env \in Environments
    /\ session = [s \in Agents |-> EmptyDict]
    /\ req = [r \in Slots |-> IdleReq]

NextTwoAgents ==
    \/ \E a \in Agents : login(a, a)
    \/ \E a \in Agents : callback(a, a) /\ PlainRequest(req'[a])
    \/ \E a \in Agents : token_response(a) /\ PlainRequest(req'[a])
    \/ \E a \in Agents : token_retry_response(a) /\ PlainRequest(req'[a])
    \/ \E a \in Agents : identity_response(a) /\ PlainRequest(req'[a])
    \/ \E a \in Agents : logout(a, a)
    \/ \E a \in Agents : agentforce_proxy(a, a) /\ PlainRequest(req'[a])
    \/ \E a \in Agents : downstream_response(a) /\ PlainRequest(req'[a])
    \/ \E a \in Agents : tableau_config(a, a)

SpecTwoAgents == InitTwoAgents /\ [][NextTwoAgents]_vars

\* ------------------------------------------------------------------ claims
SecretConfigured == Truthy(SALESFORCE_CLIENT_SECRET)
Rejected(reply) == reply.type = "response" /\ reply.status_code # 200
\* the positions of the token POSTs among a request's outbound calls
TokenPosts(q) ==
    {i \in 1..Len(q.calls) : q.calls[i].method = "POST" /\ q.calls[i].url = token_url}
\* a /callback carrying a code and no error parameter
CodeOnly(q) == q.op = "callback" /\ Truthy(q.args.code) /\ ~Truthy(q.args.error)
MissingVerifierError == Text(400, [msg |-> MissingVerifierMsg])
TokenExchangeError(reply) ==
    Text(400, [msg |-> TokenExchangeFailedMsg, status |-> reply.status_code, text |-> reply.text])

\* C1: a /callback with a code and no error, on a session without a pending
\* verifier, ends at once with the missing-verifier 400 and makes no outbound call
C1_MissingVerifierNoNetwork ==
    \A r \in Slots :
        (CodeOnly(req[r]) /\ "code_verifier" \notin DOMAIN req[r].pre)
        => /\ req[r].pc = "done"
           /\ req[r].resp = MissingVerifierError
           /\ req[r].calls = <<>>

C1_Witness ==
    \E r \in Slots :
        /\ CodeOnly(req[r])
        /\ "code_verifier" \notin DOMAIN req[r].pre
        /\ req[r].resp = MissingVerifierError

\* C2: when a /callback that posted the session's verifier to the token endpoint
\* has returned (its redirect, or the token-exchange error) and the next request is a /callback on the same session (code, no
\* error), that second callback fails with the missing-verifier error and makes
\* no token exchange
C2_SecondCallbackFails ==
    [][\A r \in Slots :
          (/\ req[r].op = "callback" /\ req[r].pc = "done" /\ TokenPosts(req[r]) # {}
           /\ req[r].resp.kind \in {"text", "redirect"}
           /\ req'[r] # req[r]
           /\ CodeOnly(req'[r]) /\ req'[r].sid = req[r].sid)
          => /\ req'[r].pc = "done"
             /\ req'[r].resp = MissingVerifierError
             /\ req'[r].calls = <<>>]_vars

\* C3: after a /callback whose token exchange was answered 200 with
\* access_token=T, instance_url=U, id=I has returned its redirect, the session
\* holds accessToken=T, instanceUrl=U and no pending verifier
C3_SessionAfterSuccess ==
    \A r \in Slots :
        LET q == req[r] IN
        (/\ q.op = "callback" /\ q.pc = "done"
         /\ q.resp = Redirect("dashboard", EmptyDict))
        => LET token_info == ParseJson(q.replies[Len(q.calls) - 1].text).val IN
           /\ Get(session[q.sid], "access_token") = token_info["access_token"]
           /\ Get(session[q.sid], "instance_url") = token_info["instance_url"]
           /\ "code_verifier" \notin DOMAIN session[q.sid]

\* C4: with a client secret configured, a rejected PKCE-only token request is
\* followed by exactly one more token request, which carries client_secret; no
\* /callback issues more than two token requests; when the retry is rejected too
\* the caller gets the token-exchange error with the second response's status
\* and body
C4_OneRetryWithSecret ==
    \A r \in Slots :
        LET q == req[r] IN
        q.op = "callback" =>
        /\ Cardinality(TokenPosts(q)) <= 2
        /\ (SecretConfigured /\ Len(q.replies) >= 1 /\ Rejected(q.replies[1]))
           => /\ TokenPosts(q) = {1, 2}
              /\ "client_secret" \notin DOMAIN q.calls[1].data
              /\ "client_secret" \in DOMAIN q.calls[2].data
              /\ q.calls[2].data["client_secret"] = SALESFORCE_CLIENT_SECRET
              /\ (Len(q.replies) >= 2 /\ Rejected(q.replies[2]))
                 => /\ q.pc = "done"
                    /\ q.resp = TokenExchangeError(q.replies[2])

C4_Witness ==
    \E r \in Slots :
        LET q == req[r] IN
        /\ q.op = "callback" /\ SecretConfigured /\ Len(q.replies) = 2
        /\ Rejected(q.replies[1]) /\ Rejected(q.replies[2])
        /\ q.replies[1].status_code # q.replies[2].status_code
        /\ q.resp = TokenExchangeError(q.replies[2])

\* C5: with no client secret configured, a rejected PKCE-only token request ends
\* the /callback with the token-exchange error (400) carrying that response's
\* status and body, after exactly one token request; no outbound request then
\* ever contains client_secret
C5_NoSecretNoRetry ==
    \A r \in Slots :
        LET q == req[r] IN
        ~SecretConfigured =>
        /\ \A i \in 1..Len(q.calls) : "client_secret" \notin DOMAIN q.calls[i].data
        /\ (q.op = "callback" /\ Len(q.replies) >= 1 /\ Rejected(q.replies[1]))
           => /\ q.pc = "done"
              /\ Len(q.calls) = 1
              /\ q.resp = TokenExchangeError(q.replies[1])

C5_Witness ==
    \E r \in Slots :
        LET q == req[r] IN
        /\ q.op = "callback" /\ ~SecretConfigured
        /\ Len(q.replies) = 1 /\ Rejected(q.replies[1])
        /\ q.resp = TokenExchangeError(q.replies[1])

\* C6: a proxy request on a session without an access token is answered 401
\* "Not authenticated" and makes no downstream call
C6_ProxyUnauthenticated ==
    \A r \in Slots :
        (req[r].op = "proxy" /\ "access_token" \notin DOMAIN req[r].pre)
        => /\ req[r].pc = "done"
           /\ req[r].resp = JsonResp(401, Jsonify(NotAuthenticated))
           /\ req[r].calls = <<>>

\* the token-less session here has been through a /login (it holds a verifier)
C6_Witness ==
    \E r \in Slots :
        /\ req[r].op = "proxy"
        /\ "access_token" \notin DOMAIN req[r].pre
        /\ "code_verifier" \in DOMAIN req[r].pre
        /\ req[r].resp.status = 401

\* the body the caller receives is the body the downstream sent: the same
\* text, or the same JSON document re-serialised
BodyRelayed(resp, reply) ==
    /\ resp.kind = "json"
    /\ \/ resp.body["json"] = reply.text
       \/ /\ ParseJson(reply.text).ok
          /\ resp.body["json"] = Jsonify(ParseJson(reply.text).val)

\* C7: an authenticated proxy request whose downstream call is answered returns
\* the downstream status and body unchanged, whatever the status and whether the
\* body is JSON or opaque, after exactly one downstream request to
\* instanceUrl + path bearing the session's access token
C7_ProxyRelaysUnchanged ==
    \A r \in Slots :
        LET q == req[r] IN
        (q.op = "proxy" /\ Len(q.replies) >= 1 /\ q.replies[1].type = "response")
        => /\ Len(q.calls) = 1
           /\ q.calls[1].url = Url(Get(q.pre, "instance_url"), agentforce_endpoint)
           /\ q.calls[1].bearer = Get(q.pre, "access_token")
           /\ q.pc = "done"
           /\ q.resp.status = q.replies[1].status_code
           /\ BodyRelayed(q.resp, q.replies[1])

\* C8: a proxy request whose downstream call times out or cannot connect
\* terminates and answers 503
C8_ProxyFailureIs503 ==
    \A r \in Slots :
        (req[r].op = "proxy" /\ req[r].fault # "none")
        => /\ req[r].pc = "done"
           /\ req[r].resp.status = 503

\* C9: a /callback whose token POST or identity GET fails at the network level
\* answers with a handled 5xx error, never with the unhandled transport
\* exception, and issues no further call
C9_CallbackFailureHandled ==
    \A r \in Slots :
        (req[r].op = "callback" /\ req[r].fault # "none")
        => /\ req[r].pc = "done"
           /\ req[r].resp.status \in 500..599
           /\ req[r].resp.kind # "exception"
           /\ Len(req[r].calls) = Len(req[r].replies)

\* C10: after a /callback whose token exchange succeeded and whose identity GET
\* was answered with a non-200 status, the callback has redirected to the
\* dashboard, the session holds the new access token and holds no identity
C10_IdentityAbsentOnFailure ==
    \A r \in Slots :
        LET q == req[r] IN
        (/\ q.op = "callback" /\ q.pc = "done" /\ Len(q.replies) >= 2
         /\ q.calls[Len(q.replies)].method = "GET"
         /\ Rejected(q.replies[Len(q.replies)]))
        => /\ q.resp = Redirect("dashboard", EmptyDict)
           /\ Get(session[q.sid], "access_token") = q.calls[Len(q.calls)].bearer
           /\ "user_info" \notin DOMAIN session[q.sid]

\* the token fields of a session cookie
TokenFields(d) ==
    [k \in (DOMAIN d) \cap {"access_token", "instance_url", "refresh_token", "user_info"} |-> d[k]]
\* the token endpoint answered one of the request's token POSTs with 200
ExchangeSucceeded(q) ==
    \E i \in TokenPosts(q) :
        /\ i <= Len(q.replies)
        /\ q.replies[i].type = "response"
        /\ q.replies[i].status_code = 200

\* C11: the token fields of a session (accessToken, instanceUrl, refreshToken,
\* identity), empty at first, change only when a /callback on that session whose
\* token exchange was answered 200 returns, or when a /logout empties the
\* session: no /login, failed /callback, proxy or config request changes them
C11_TokenFieldsOnlyBySuccess ==
    [][\A s \in DOMAIN session :
          TokenFields(session'[s]) # TokenFields(session[s])
          => \E r \in Slots :
                /\ req'[r] # req[r]
                /\ req'[r].sid = s
                /\ req'[r].pc = "done"
                /\ \/ req'[r].op = "logout" /\ session'[s] = EmptyDict
                   \/ req'[r].op = "callback" /\ ExchangeSucceeded(req'[r])]_vars

C11_Witness ==
    \E r \in Slots :
        /\ req[r].op = "callback" /\ req[r].pc = "done"
        /\ ExchangeSucceeded(req[r])
        /\ "access_token" \notin DOMAIN req[r].pre
        /\ "access_token" \in DOMAIN session[req[r].sid]

AfterLogout(q) == q.op = "logout" /\ q.pc = "done"

\* C12: a /logout returns at once with the session emptied (no pending
\* verifier, token, refresh token, instance URL or identity), whatever it held;
\* the request that follows on that session is unauthenticated when it is a
\* proxy request and fails with the missing-verifier error, without a network
\* call, when it is a /callback with a code
C12_LogoutDestroysSession ==
    /\ [](\A r \in Slots :
            req[r].op = "logout"
            => /\ req[r].pc = "done"
               /\ req[r].resp = Redirect("index", EmptyDict)
               /\ session[req[r].sid] = EmptyDict)
    /\ [][\A r \in Slots :
            (AfterLogout(req[r]) /\ req'[r] # req[r] /\ req'[r].sid = req[r].sid)
            => /\ req'[r].op = "proxy"
                  => /\ req'[r].resp = JsonResp(401, Jsonify(NotAuthenticated))
                     /\ req'[r].calls = <<>>
               /\ CodeOnly(req'[r])
                  => /\ req'[r].resp = MissingVerifierError
                     /\ req'[r].calls = <<>>]_vars

C12_Witness ==
    \E r \in Slots :
        /\ AfterLogout(req[r])
        /\ {"code_verifier", "access_token", "instance_url", "refresh_token", "user_info"}
              \subseteq DOMAIN req[r].pre
        /\ session[req[r].sid] = EmptyDict

\* C13: of two /callback requests (code, no error) on the same session that
\* overlap after one /login, when one has posted to the token endpoint the
\* other has failed with the missing-verifier error without any outbound call
C13_SingleExchange ==
    \A r1, r2 \in Slots :
        (/\ r1 # r2
         /\ CodeOnly(req[r1]) /\ CodeOnly(req[r2])
         /\ req[r1].sid = req[r2].sid
         /\ TokenPosts(req[r1]) # {})
        => /\ req[r2].pc = "done"
           /\ req[r2].resp = MissingVerifierError
           /\ req[r2].calls = <<>>

\* the request has returned without an outbound call and without touching the
\* session, which is as the request found it
Untouched(q) ==
    /\ q.pc = "done"
    /\ q.calls = <<>>
    /\ q.sess = q.pre
    /\ ~q.saved
    /\ session[q.sid] = q.pre

\* C14: a /callback carrying an error parameter (a non-empty one, as an
\* authorization server sends it) fails with the authorization error, 400, also
\* when a code comes with it; one carrying neither error nor code fails with the
\* missing-code error, 400; in both cases there is no outbound call and the
\* session (pending verifier, token fields) is unchanged
C14_ErrorAndMissingCode ==
    \A r \in Slots :
        LET q == req[r] IN
        q.op = "callback" =>
        /\ Truthy(q.args.error)
           => /\ q.resp = Text(400, [msg |-> AuthorizationFailedMsg, error |-> q.args.error])
              /\ Untouched(q)
        /\ (~Truthy(q.args.error) /\ ~Truthy(q.args.code))
           => /\ q.resp = Text(400, [msg |-> MissingCodeMsg])
              /\ Untouched(q)

C14_Witness ==
    \E r \in Slots :
        LET q == req[r] IN
        /\ q.op = "callback" /\ Truthy(q.args.error) /\ Truthy(q.args.code)
        /\ {"code_verifier", "access_token"} \subseteq DOMAIN q.pre
        /\ q.resp.status = 400

\* C15: every /login returns at once a redirect to the authorization endpoint
\* whose query carries response_type=code, client_id, redirect_uri, scope,
\* code_challenge_method=S256 and the code_challenge derived from the verifier
\* this request stored in the session; the stored verifier is in the cookie
\* returned with the redirect, and it is nowhere in the redirect's query
C15_LoginRedirect ==
    \A r \in Slots :
        LET q == req[r]
            query == q.resp.body["query"]
            code_verifier == Get(q.sess, "code_verifier")
        IN
        q.op = "login" =>
        /\ q.pc = "done"
        /\ q.resp.kind = "redirect"
        /\ q.resp.body["location"] = auth_url
        /\ DOMAIN query = {"response_type", "client_id", "redirect_uri", "scope",
                           "code_challenge", "code_challenge_method"}
        /\ query["response_type"] = "code"
        /\ query["client_id"] = SALESFORCE_CLIENT_ID
        /\ query["redirect_uri"] = REDIRECT_URI
        /\ query["scope"] = scope
        /\ query["code_challenge_method"] = "S256"
        /\ code_verifier \in Verifiers
        /\ query["code_challenge"] = code_challenge_of(code_verifier)
        /\ q.saved
        /\ Get(session[q.sid], "code_verifier") = code_verifier
        /\ \A k \in DOMAIN query : query[k] # code_verifier

\* a /login that replaced an earlier pending verifier by a different one
C15_Witness ==
    \E r \in Slots :
        LET q == req[r] IN
        /\ q.op = "login" /\ q.pc = "done"
        /\ "code_verifier" \in DOMAIN q.pre
        /\ q.pre["code_verifier"] # Get(session[q.sid], "code_verifier")
        /\ q.resp.body["query"]["code_challenge"]
              = code_challenge_of(session[q.sid]["code_verifier"])

\* the strings a response shows to the user agent
Shown(resp) ==
    CASE resp.kind = "redirect" ->
            {resp.body["query"][k] : k \in DOMAIN resp.body["query"]}
      [] resp.kind = "json" /\ "object" \in DOMAIN resp.body ->
            {resp.body["object"][k] : k \in DOMAIN resp.body["object"]}
      [] OTHER -> {resp.body[k] : k \in (DOMAIN resp.body) \ {"status"}}

\* the strings held in a session cookie
Held(d) ==
    {d[k] : k \in (DOMAIN d) \ {"user_info"}}
    \cup (IF "user_info" \in DOMAIN d
          THEN {d["user_info"][f] : f \in DOMAIN d["user_info"]}
          ELSE {})

\* C16: with a client secret configured, no response to the user agent
\* (redirect query, body) and no session cookie contains the secret; an outbound
\* call carries client_secret only when it is the second call of a /callback, a
\* POST to the token endpoint made after the first token request was rejected,
\* and the secret appears nowhere else in any outbound call
C16_SecretNotExposed ==
    \A r \in Slots :
        LET q == req[r] IN
        /\ SecretConfigured
           => /\ SALESFORCE_CLIENT_SECRET \notin Shown(q.resp)
              /\ SALESFORCE_CLIENT_SECRET \notin Held(q.sess)
              /\ \A s \in DOMAIN session : SALESFORCE_CLIENT_SECRET \notin Held(session[s])
              /\ \A i \in 1..Len(q.calls) :
                    /\ q.calls[i].bearer # SALESFORCE_CLIENT_SECRET
                    /\ \A k \in (DOMAIN q.calls[i].data) \ {"client_secret"} :
                          q.calls[i].data[k] # SALESFORCE_CLIENT_SECRET
        /\ \A i \in 1..Len(q.calls) :
              "client_secret" \in DOMAIN q.calls[i].data
              => /\ q.op = "callback"
                 /\ i = 2
                 /\ q.calls[i].method = "POST"
                 /\ q.calls[i].url = token_url
                 /\ Rejected(q.replies[1])

\* the secret went out in a retry, the callback stored the tokens, and its
\* response and cookie are in the user agent's hands
C16_Witness ==
    \E r \in Slots :
        LET q == req[r] IN
        /\ SecretConfigured
        /\ q.op = "callback" /\ q.pc = "done"
        /\ Len(q.calls) = 3
        /\ q.calls[2].data["client_secret"] = SALESFORCE_CLIENT_SECRET
        /\ q.resp.kind = "redirect"
        /\ "access_token" \in DOMAIN session[q.sid]

\* C17: when the client id is missing from the configuration the application
\* serves no request: no /login and no /callback is ever handled without it
C17_NoServiceWithoutClientId ==
    SALESFORCE_CLIENT_ID = None
    => \A r \in Slots : req[r].op \notin {"login", "callback"}

\* C18: in every cookie a later request can present, accessToken is there if
\* and only if instanceUrl is, and a session holding an accessToken holds no
\* pending verifier
C18_AtomicTokenFields ==
    \A s \in DOMAIN session :
        /\ "access_token" \in DOMAIN session[s] <=> "instance_url" \in DOMAIN session[s]
        /\ "access_token" \in DOMAIN session[s] => "code_verifier" \notin DOMAIN session[s]

\* what a request sends out is its own session's: the verifier of its token
\* POSTs and the bearer of its proxy call are those of the cookie it came with
SendsOwn(q) ==
    \A i \in 1..Len(q.calls) :
        /\ q.calls[i].url = token_url
           => q.calls[i].data["code_verifier"] = Get(q.pre, "code_verifier")
        /\ q.op = "proxy" => q.calls[i].bearer = Get(q.pre, "access_token")

\* C19: a step of a request on session A leaves every other session B as it
\* was, a request arriving on A works on A's cookie, and the verifier posted in
\* its token exchange and the bearer of its proxy call are A's own, however the
\* requests of A and B overlap
C19_SessionsIsolated ==
    /\ [](\A r \in Slots : SendsOwn(req[r]))
    /\ [][\A r \in Slots :
            req'[r] # req[r]
            => /\ \A s \in DOMAIN session :
                     s # req'[r].sid => session'[s] = session[s]
               /\ req[r].pc \in {"idle", "done"} => req'[r].pre = session[req'[r].sid]]_vars

\* A's second callback has stored its tokens while B, holding another verifier
\* and another access token, has a proxy call in flight
C19_Witness ==
    /\ req[1].op = "callback" /\ req[1].pc = "done" /\ ExchangeSucceeded(req[1])
    /\ "access_token" \in DOMAIN req[1].pre
    /\ req[2].op = "proxy" /\ req[2].pc = "downstream"
    /\ req[1].sid # req[2].sid
    /\ Get(session[req[1].sid], "access_token") # Get(session[req[2].sid], "access_token")
    /\ Get(session[req[1].sid], "code_verifier") # Get(session[req[2].sid], "code_verifier")
    /\ req[2].calls[1].bearer = session[req[2].sid]["access_token"]

\* C20: every token request of a /callback, the first and the secret-bearing
\* retry alike, carries the code of the request and the verifier of the cookie
\* it came with; a /login that follows a /login on the same session leaves as
\* pending verifier the one behind its own redirect's challenge; and when a
\* /callback follows a /login on the same session, the verifier it posts is the
\* one that /login stored, the one whose challenge was in that last redirect
C20_LatestVerifier ==
    /\ [](\A r \in Slots :
            req[r].op = "callback"
            => \A i \in TokenPosts(req[r]) :
                  /\ req[r].calls[i].data["code"] = req[r].args.code
                  /\ req[r].calls[i].data["code_verifier"] = Get(req[r].pre, "code_verifier"))
    /\ [][\A r \in Slots :
            (/\ req[r].op = "login" /\ req[r].pc = "done"
             /\ req'[r] # req[r] /\ req'[r].sid = req[r].sid)
            => /\ req'[r].op = "login"
                  => req'[r].resp.body["query"]["code_challenge"]
                        = code_challenge_of(Get(session'[req'[r].sid], "code_verifier"))
               /\ (req'[r].op = "callback" /\ TokenPosts(req'[r]) # {})
                  => /\ req'[r].calls[1].data["code_verifier"] = req[r].sess["code_verifier"]
                     /\ code_challenge_of(req'[r].calls[1].data["code_verifier"])
                           = req[r].resp.body["query"]["code_challenge"]]_vars

\* a callback that posted twice, the retry with the secret, on a session that
\* had been through an earlier exchange
C20_Witness ==
    \E r \in Slots :
        LET q == req[r] IN
        /\ q.op = "callback" /\ TokenPosts(q) = {1, 2}
        /\ "access_token" \in DOMAIN q.pre
        /\ q.calls[1].data["code_verifier"] = q.calls[2].data["code_verifier"]
        /\ q.calls[1].data["code"] = q.calls[2].data["code"]
        /\ "client_secret" \in DOMAIN q.calls[2].data

====
